---- MODULE Spec2Model ----
(***************************************************************************)
(* Resource-Demand Network of graph/scheduling_problem.py.                 *)
(*                                                                         *)
(* The state is the client-visible state of the Python objects: the RDNs   *)
(* (graph, notification queue), the resources (back-reference, processes,  *)
(* inbox new_tasks, sequence tasks, supply bookkeeping) and the tasks.     *)
(* The client constructs the resources with their processes (Init) and     *)
(* then calls the public methods, one action each; a call that raises      *)
(* keeps the assignments made before the raise, and `last` records the     *)
(* method and the exception.                                               *)
(*                                                                         *)
(* examples/hashgraph.py has two pure functions, merkle_tree and           *)
(* flow_graph_hash; each has its own specification, which draws the       *)
(* function's input in its initial state and runs the function one loop   *)
(* iteration per step.                                                     *)
(*                                                                         *)
(* A multiset (Task.requires, Process.inputs, Process.outputs) is          *)
(* represented by its key set: the code reads these dicts only through     *)
(* .keys() (lines 65, 67, 159) and through their truth value (line 322).   *)
(***************************************************************************)
EXTENDS Integers, Sequences, FiniteSets, TLC

\* ---------------------------------------------------------------- bounds
NRes == 3        \* Resource objects constructed by the client (ids 0..NRes-1)
MaxTasks == 2    \* Task objects the resources get to hold
MaxBlocks == 4   \* data blocks handed to merkle_tree
MaxNodes == 3    \* node ids of the graphs handed to flow_graph_hash (1..MaxNodes)
MaxEdges == 3    \* edges of the graphs handed to flow_graph_hash
MaxHeld == 4     \* Task objects, supply tasks included, in the runs of the fan-out

Res == 0 .. (NRes - 1)
RDNs == {"A", "B"}
None == "None"    \* None where the other values are strings
NoId == -1        \* None where the other values are ids
NoExc == "none"
Inf == 1000000    \* float('inf'): above every time a schedule can hold

\* The processes the client installs.  Psrc is the source process of the
\* single-resource scenario (setup 1, run 2, shutdown 1, change-over 0);
\* Pcons consumes what Psrc produces; Pcyc closes a supply cycle with Pcons.
Psrc == [inputs |-> {}, outputs |-> {"a"}, setup_time |-> 1, run_time |-> 2,
         shutdown_time |-> 1, change_over_time |-> 0]
Pcons == [inputs |-> {"a"}, outputs |-> {"b"}, setup_time |-> 0, run_time |-> 1,
          shutdown_time |-> 0, change_over_time |-> 0]
Pcyc == [inputs |-> {"b"}, outputs |-> {"a"}, setup_time |-> 0, run_time |-> 1,
         shutdown_time |-> 2, change_over_time |-> 1]
\* the processes the client installs with add_process when it constructs
\* the resources: resource 0 is the consumer, resources 1 and 2 can supply
\* it, resource 2 is a source, any further resource has no process
InstalledProcesses(r) ==
    IF r = 0 THEN <<Pcons>> ELSE IF r = 1 THEN <<Pcyc>> ELSE IF r = 2 THEN <<Psrc>> ELSE <<>>
\* requires of the tasks the client constructs
ReqPool == {{"a"}, {"b"}}
\* the edges client -> supplier the client wires
EdgePool == {<<0, 1>>, <<0, 2>>, <<1, 0>>}
\* the edges of the runs of the fan-out: in addition an edge to a resource
\* that cannot supply its client
SupplyEdgePool == EdgePool \cup {<<1, 2>>}

VARIABLES
    rdn,          \* Resource._rdn : back-reference, None until bound
    network,      \* ResourceDemandNetwork.network : the graph of each RDN
    task_queue,   \* ResourceDemandNetwork.task_queue : ordered set of ids
    processes,    \* Resource.processes
    new_tasks,    \* Resource.new_tasks : inbox
    tasks,        \* Resource.tasks : sequence
    supply,       \* Resource.supply : task id -> list of supply task ids
    task,         \* the Task objects the resources got to hold, by identity
    nextId,       \* the identity of the next such Task (Task._ids counts on
                  \* for the tasks that are constructed and dropped)
    last,         \* the last call: method and exception raised
    idle_time,    \* Resource.idle_time
    makespan,     \* ResourceDemandNetwork._makespan
    solution,     \* ResourceDemandNetwork._solution : resource -> task tuple
    merkle,       \* the call of merkle_tree: its argument data_blocks, its
                  \* locals leaves and g, and where it stands (pc)
    flow          \* the call of flow_graph_hash: its argument graph, its
                  \* locals sources, hash_graph and visited, and where it
                  \* stands (pc)

rdn_vars == <<rdn, network, task_queue, processes, new_tasks, tasks, supply,
              task, nextId, last, idle_time, makespan, solution>>
hash_vars == <<merkle, flow>>
vars == <<rdn_vars, merkle, flow>>

\* ------------------------------------------------------- graph container
\* graph.Graph is not part of the sources; it is modelled from its interface:
\* a node set and, per node, the successors in insertion order.
EmptyGraph == [nodes |-> {}, succ |-> [r \in Res |-> <<>>]]

Graph_add_node(gr, n) == [gr EXCEPT !.nodes = @ \cup {n}]

SeqHas(l, x) == \E i \in DOMAIN l : l[i] = x

Graph_add_edge(gr, n1, n2) ==
    [nodes |-> gr.nodes \cup {n1, n2},
     succ |-> [gr.succ EXCEPT ![n1] = IF SeqHas(@, n2) THEN @ ELSE Append(@, n2)]]

\* Graph.node(id): the object stored for id, None for an unknown id
Graph_node(gr, n) == IF n \in gr.nodes THEN n ELSE NoId

\* Graph.nodes(from_node=n)
Graph_nodes_from(gr, n) == gr.succ[n]

\* ------------------------------------------------------------------ Init
Task_init(req, client, supplier) ==
    [requires |-> req, client |-> client, supplier |-> supplier,
     scheduled_start |-> None, scheduled_finish |-> None, idle_time |-> 0]

\* a call: the method and the exception it raised
Call(op, exc) == [op |-> op, exc |-> exc]

InitRDN ==
    /\ rdn = [r \in Res |-> None]
    /\ network = [N \in RDNs |-> EmptyGraph]
    /\ task_queue = [N \in RDNs |-> <<>>]
    /\ processes = [r \in Res |-> InstalledProcesses(r)]
    /\ new_tasks = [r \in Res |-> <<>>]
    /\ tasks = [r \in Res |-> <<>>]
    /\ supply = [r \in Res |-> <<>>]
    /\ task = <<>>
    /\ nextId = 0
    /\ last = Call("init", NoExc)
    /\ idle_time = [r \in Res |-> 0]
    /\ makespan = [N \in RDNs |-> Inf]
    /\ solution = [N \in RDNs |-> <<>>]

\* no call of merkle_tree, respectively of flow_graph_hash, is made
IdleMerkle == merkle = [pc |-> "idle"]

IdleFlow == flow = [pc |-> "idle"]

Init == InitRDN /\ IdleMerkle /\ IdleFlow

\* ---------------------------------------------- ResourceDemandNetwork API
\* Resource.rdn setter, called by add_resource and add_edge
rdn_setter(r, N) == IF rdn[r] # None THEN "ValueError" ELSE NoExc

add_resource(N, r) ==
    /\ IF r \notin network[N].nodes
       THEN /\ network' = [network EXCEPT ![N] = Graph_add_node(@, r)]
            /\ rdn' = IF rdn_setter(r, N) = NoExc THEN [rdn EXCEPT ![r] = N] ELSE rdn
            /\ last' = Call("add_resource", rdn_setter(r, N))
       ELSE /\ UNCHANGED <<network, rdn>>
            /\ last' = Call("add_resource", NoExc)
    /\ UNCHANGED <<task_queue, processes, new_tasks, tasks, supply, task, nextId>>
    /\ UNCHANGED <<idle_time, makespan, solution, hash_vars>>

add_edge(N, client, resource) ==
    /\ network' = [network EXCEPT ![N] =
                     Graph_add_edge(Graph_add_node(Graph_add_node(@, client), resource),
                                    client, resource)]
    /\ rdn' = [r \in Res |-> IF r \in {client, resource} /\ rdn[r] = None
                             THEN N ELSE rdn[r]]
    /\ last' = Call("add_edge", NoExc)
    /\ UNCHANGED <<task_queue, processes, new_tasks, tasks, supply, task, nextId>>
    /\ UNCHANGED <<idle_time, makespan, solution, hash_vars>>

\* RDN.notify(r_id) on the queue function q, for the RDN N
notify(q, N, r_id) ==
    [q EXCEPT ![N] = IF SeqHas(@, r_id) THEN @ ELSE Append(@, r_id)]

\* ----------------------------------------------------------- Resource API
\* Process.__eq__(task) / Task.__eq__(process): key sets coincide
Process_eq(p, req) == p.outputs = req

\* Task.__eq__(task): key sets coincide
Task_eq(t, u) == task[t].requires = task[u].requires

can_support(r, req) == \E i \in DOMAIN processes[r] : Process_eq(processes[r][i], req)

\* add_task with the checks after the append: the task is in the inbox and
\* the resource is notified although the call raises
add_task_fn_late_check(s, r, t, req) ==
    IF rdn[r] = None THEN [s |-> s, exc |-> "ValueError"]
    ELSE [s |-> [s EXCEPT !.new_tasks[r] = Append(@, t),
                          !.task_queue = notify(@, rdn[r], r)],
          exc |-> IF ~can_support(r, req) THEN "ValueError" ELSE NoExc]

\* Resource.add_task on the heap s = [new_tasks, task_queue]; req is
\* task.requires.  Returns the heap after the call and the exception raised.
add_task_fn(s, r, t, req) ==
    IF rdn[r] = None THEN [s |-> s, exc |-> "ValueError"]
    ELSE IF ~can_support(r, req) THEN [s |-> s, exc |-> "ValueError"]
    ELSE [s |-> [s EXCEPT !.new_tasks[r] = Append(@, t),
                          !.task_queue = notify(@, rdn[r], r)],
          exc |-> NoExc]

\* the client calls r.add_task(Task(requires=req)); a task the resource
\* refuses is dropped
add_task(r, req) ==
    LET res == add_task_fn([new_tasks |-> new_tasks, task_queue |-> task_queue],
                           r, nextId, req)
    IN /\ nextId < MaxTasks
       /\ new_tasks' = res.s.new_tasks
       /\ task_queue' = res.s.task_queue
       /\ IF res.exc = NoExc
          THEN /\ task' = task @@ (nextId :> Task_init(req, NoId, NoId))
               /\ nextId' = nextId + 1
               /\ last' = Call("add_task", NoExc)
          ELSE /\ UNCHANGED <<task, nextId>>
               /\ last' = Call("add_task", res.exc)
       /\ UNCHANGED <<rdn, network, processes, tasks, supply>>
       /\ UNCHANGED <<idle_time, makespan, solution, hash_vars>>

\* Task.__bool__: the task is committed
Task_bool(tk) == tk.scheduled_start # None /\ tk.scheduled_finish # None

\* `task in list` and list.remove(task) compare with Task.__eq__
ListContains(l, t) == \E i \in DOMAIN l : l[i] = t \/ Task_eq(l[i], t)

ListRemove(l, t) ==
    LET i == CHOOSE i \in DOMAIN l :
                 /\ l[i] = t \/ Task_eq(l[i], t)
                 /\ \A j \in 1 .. (i - 1) : ~(l[j] = t \/ Task_eq(l[j], t))
    IN SubSeq(l, 1, i - 1) \o SubSeq(l, i + 1, Len(l))

\* Resource.remove_task on the heap s = [new_tasks, tasks, task_queue];
\* supply_loop is its loop over supply[task], from index i on.
RECURSIVE remove_task_fn(_, _, _)
RECURSIVE supply_loop(_, _, _, _)
supply_loop(s, r, t, i) ==
    IF i > Len(supply[r][t]) THEN [s |-> s, exc |-> NoExc]
    ELSE IF rdn[r] = None THEN [s |-> s, exc |-> "AttributeError"]
    ELSE LET resource == Graph_node(network[rdn[r]], task[t].supplier)
         IN IF resource = NoId THEN [s |-> s, exc |-> "AttributeError"]
            ELSE LET res == remove_task_fn(s, resource, supply[r][t][i])
                 IN IF res.exc # NoExc THEN res
                    ELSE supply_loop([res.s EXCEPT !.task_queue =
                                          notify(@, rdn[r], task[t].supplier)],
                                     r, t, i + 1)

remove_task_fn(s, r, t) ==
    LET s1 == [s EXCEPT !.tasks[r] = IF ListContains(@, t) THEN ListRemove(@, t) ELSE @]
        s2 == [s1 EXCEPT !.new_tasks[r] = IF ListContains(@, t) THEN ListRemove(@, t) ELSE @]
    IN IF t \in DOMAIN supply[r] THEN supply_loop(s2, r, t, 1)
       ELSE [s |-> s2, exc |-> NoExc]

remove_task(r, t) ==
    LET res == remove_task_fn([new_tasks |-> new_tasks, tasks |-> tasks,
                               task_queue |-> task_queue], r, t)
    IN /\ t \in DOMAIN task
       /\ new_tasks' = res.s.new_tasks
       /\ tasks' = res.s.tasks
       /\ task_queue' = res.s.task_queue
       /\ last' = Call("remove_task", res.exc)
       /\ UNCHANGED <<rdn, network, processes, supply, task, nextId>>
       /\ UNCHANGED <<idle_time, makespan, solution, hash_vars>>

\* Resource.get_process: the first installed process matching the key set
\* (it returns None exactly when can_support is false)
get_process(r, req) ==
    LET I == {i \in DOMAIN processes[r] : Process_eq(processes[r][i], req)}
    IN processes[r][CHOOSE i \in I : \A j \in I : i <= j]

\* suppliers without the graph: every other resource that can support the
\* key set, wired to r or not
suppliers_any_resource(r, req) ==
    SelectSeq([i \in 1 .. NRes |-> i - 1], LAMBDA n : n # r /\ can_support(n, req))

\* Resource.suppliers: the successors of r in its RDN's graph that can
\* support the key set, in the order the graph lists them
suppliers(r, req) ==
    SelectSeq(Graph_nodes_from(network[rdn[r]], r), LAMBDA n : can_support(n, req))

\* the loop over suppliers(supply_task) in _awaiting_supply_schedule, on the
\* heap s = [new_tasks, tasks, supply, task_queue, task, nextId]
RECURSIVE fan_out(_, _, _, _, _, _)
fan_out(s, r, t, inputs, sup, i) ==
    IF i > Len(sup) THEN [s |-> s, ret |-> "True", exc |-> NoExc]
    ELSE LET id == s.nextId
             s1 == [s EXCEPT !.nextId = id + 1,
                             !.task = @ @@ (id :> Task_init(inputs, r, sup[i])),
                             !.supply[r][t] = Append(@, id)]
             res == add_task_fn(s1, sup[i], id, inputs)
         IN IF res.exc # NoExc THEN [s |-> res.s, ret |-> None, exc |-> res.exc]
            ELSE fan_out(res.s, r, t, inputs, sup, i + 1)

\* the while loop of _awaiting_supply_schedule; ret is "fallthrough" when the
\* loop ends because the inbox is empty
RECURSIVE drain(_, _)
drain(s, r) ==
    IF s.new_tasks[r] = <<>> THEN [s |-> s, ret |-> "fallthrough", exc |-> NoExc]
    ELSE LET t == Head(s.new_tasks[r])
             s1 == [s EXCEPT !.new_tasks[r] = Tail(@), !.tasks[r] = Append(@, t)]
             process == get_process(r, s.task[t].requires)
         IN IF ~can_support(r, s.task[t].requires)
            THEN [s |-> s1, ret |-> None, exc |-> "AssertionError"]
            ELSE IF process.inputs = {} THEN drain(s1, r)
            ELSE LET s2 == [s1 EXCEPT !.supply[r] = (t :> <<>>) @@ @]
                 IN fan_out(s2, r, t, process.inputs, suppliers(r, process.inputs), 1)

\* the sort of line 341: its key reads t.runtime and t.name, which no Task
\* has, so the key of the first element raises
sort_tasks(l) == IF l = <<>> THEN NoExc ELSE "AttributeError"

awaiting_supply_schedule(r) ==
    LET d == drain([new_tasks |-> new_tasks, tasks |-> tasks, supply |-> supply,
                    task_queue |-> task_queue, task |-> task, nextId |-> nextId], r)
    IN IF d.ret # "fallthrough" THEN d
       ELSE IF DOMAIN d.s.supply[r] = {}
            THEN [s |-> d.s, ret |-> IF sort_tasks(d.s.tasks[r]) = NoExc THEN "False" ELSE None,
                  exc |-> sort_tasks(d.s.tasks[r])]
       ELSE [s |-> d.s,
             ret |-> IF \E t \in DOMAIN d.s.supply[r] : \E i \in DOMAIN d.s.supply[r][t] :
                            ~Task_bool(d.s.task[d.s.supply[r][t][i]])
                     THEN "True" ELSE "False",
             exc |-> NoExc]

\* _determine_schedule: for the first task previous_task is the class
\* NullTask, and `previous_task == task` at line 367 ends in Task.__eq__,
\* which raises NotImplementedError for an operand that is neither a Process
\* nor a Task; no assignment of the loop body is reached
determine_schedule(l) == IF l = <<>> THEN NoExc ELSE "NotImplementedError"

\* Resource.schedule, where the Task objects constructed so far, those of
\* the fan-out included, stay within bound
Resource_schedule_within(r, bound) ==
    LET a == awaiting_supply_schedule(r)
        exc == IF rdn[r] = None THEN "AttributeError"
               ELSE IF a.exc # NoExc THEN a.exc
               ELSE IF a.ret = "True" THEN NoExc
               ELSE determine_schedule(a.s.tasks[r])
    IN /\ UNCHANGED <<idle_time, makespan, solution, hash_vars>>
       /\ IF rdn[r] = None
          THEN /\ last' = Call("schedule", "AttributeError")
               /\ UNCHANGED <<rdn, network, task_queue, processes, new_tasks, tasks,
                              supply, task, nextId>>
          ELSE /\ a.s.nextId <= bound
               /\ new_tasks' = a.s.new_tasks
               /\ tasks' = a.s.tasks
               /\ supply' = a.s.supply
               /\ task_queue' = a.s.task_queue
               /\ task' = a.s.task
               /\ nextId' = a.s.nextId
               /\ last' = Call("schedule", exc)
               /\ UNCHANGED <<rdn, network, processes>>

\* Resource.schedule
Resource_schedule(r) == Resource_schedule_within(r, MaxTasks)

\* ResourceDemandNetwork.schedule: with no resource it raises SchedulingError;
\* otherwise the seeding loop reads resource.mq, an attribute no Resource
\* has, and the call ends there with AttributeError
RDN_schedule(N) ==
    /\ last' = Call("RDN.schedule",
                    IF network[N].nodes = {} THEN "SchedulingError" ELSE "AttributeError")
    /\ UNCHANGED <<rdn, network, task_queue, processes, new_tasks, tasks, supply,
                   task, nextId>>
    /\ UNCHANGED <<idle_time, makespan, solution, hash_vars>>

Next ==
    \/ \E r \in Res : add_resource("A", r)
    \/ \E e \in EdgePool : add_edge("A", e[1], e[2])
    \/ \E r \in Res, req \in ReqPool : add_task(r, req)
    \/ \E r \in Res, t \in 0 .. (MaxTasks - 1) : remove_task(r, t)
    \/ \E r \in Res : Resource_schedule(r)
    \/ RDN_schedule("A")

Spec == Init /\ [][Next]_vars

\* the client wires resources into either of two RDNs
NextBind ==
    \/ \E N \in RDNs, r \in Res : add_resource(N, r)
    \/ \E N \in RDNs, e \in EdgePool : add_edge(N, e[1], e[2])

SpecBind == Init /\ [][NextBind]_vars

\* the client wires a supply graph, hands tasks to the resources and calls
\* their schedule()
NextSupply ==
    \/ \E e \in SupplyEdgePool : add_edge("A", e[1], e[2])
    \/ \E r \in Res, req \in ReqPool : add_task(r, req)
    \/ \E r \in Res : Resource_schedule_within(r, MaxHeld)

SpecSupply == Init /\ [][NextSupply]_vars

\* ========================================================= hashgraph.py
\* graph.Graph as the two functions use it, modelled from its interface: the
\* nodes and the edges in insertion order (nodes(...) lists follow it), and,
\* for the hash graph, the object stored per node.
G_has(gr, n) == SeqHas(gr.nodes, n)

G_add_node(gr, n) == IF G_has(gr, n) THEN gr ELSE [gr EXCEPT !.nodes = Append(@, n)]

G_add_edge(gr, n1, n2) ==
    LET gn == G_add_node(G_add_node(gr, n1), n2)
    IN IF SeqHas(gn.edges, <<n1, n2>>) THEN gn
       ELSE [gn EXCEPT !.edges = Append(@, <<n1, n2>>)]

\* Graph.add_node(node_id, obj=obj)
G_add_node_obj(gr, n, o) == [G_add_node(gr, n) EXCEPT !.obj = (n :> o) @@ @]

RECURSIVE G_from_list(_)
G_from_list(L) ==
    IF L = <<>> THEN [nodes |-> <<>>, edges |-> <<>>]
    ELSE G_add_edge(G_from_list(SubSeq(L, 1, Len(L) - 1)), L[Len(L)][1], L[Len(L)][2])

\* Graph.nodes(from_node=n), Graph.nodes(to_node=n)
G_nodes_from(gr, n) ==
    LET out == SelectSeq(gr.edges, LAMBDA e : e[1] = n)
    IN [i \in DOMAIN out |-> out[i][2]]

G_nodes_to(gr, n) ==
    LET inc == SelectSeq(gr.edges, LAMBDA e : e[2] = n)
    IN [i \in DOMAIN inc |-> inc[i][1]]

\* Graph.nodes(in_degree=k), Graph.nodes(out_degree=k)
G_nodes_in_degree(gr, k) ==
    SelectSeq(gr.nodes, LAMBDA n : Len(G_nodes_to(gr, n)) = k)

G_nodes_out_degree(gr, k) ==
    SelectSeq(gr.nodes, LAMBDA n : Len(G_nodes_from(gr, n)) = k)

\* the nodes a search from the nodes S reaches, S included
RECURSIVE G_reach(_, _)
G_reach(gr, S) ==
    LET N == S \cup {gr.edges[i][2] : i \in {j \in DOMAIN gr.edges : gr.edges[j][1] \in S}}
    IN IF N = S THEN S ELSE G_reach(gr, N)

\* Graph.depth_first_search(start, end), read as a truth value
G_depth_first_search(gr, start, end) == end \in G_reach(gr, {start})

\* hashlib.sha3_256 followed by hexdigest, on the bytes b: injective, and a
\* digest is itself text that can be hashed again
sha3_256(b) == "H(" \o b \o ")"

\* ------------------------------------------------------------ merkle_tree
\* the data blocks of the tests, and the block made of the digests of the
\* first two
BlockPool == {"this", "that", "them", "they", sha3_256("this") \o sha3_256("that")}

InitMerkle ==
    /\ InitRDN
    /\ IdleFlow
    /\ \E k \in 0 .. MaxBlocks : \E blocks \in [1 .. k -> BlockPool] :
          merkle = [data_blocks |-> blocks, leaves |-> <<>>,
                    g |-> [nodes |-> <<>>, edges |-> <<>>], pc |-> "start"]

\* lines 43-53: the initial hash of every block
RECURSIVE hash_blocks(_, _)
hash_blocks(st, blocks) ==
    IF blocks = <<>> THEN st
    ELSE LET uuid == sha3_256(Head(blocks))
         IN hash_blocks([st EXCEPT !.leaves = Append(@, uuid), !.g = G_add_node(@, uuid)],
                        Tail(blocks))

merkle_initial_hash ==
    /\ merkle.pc = "start"
    /\ merkle' = [hash_blocks(merkle, merkle.data_blocks) EXCEPT !.pc = "loop"]
    /\ UNCHANGED <<rdn_vars, flow>>

\* lines 60-69: one iteration of `while leaves` that pairs two leaves
merkle_pair ==
    /\ merkle.pc = "loop"
    /\ Len(merkle.leaves) >= 2
    /\ LET c1 == merkle.leaves[1]
           c2 == merkle.leaves[2]
           uuid == sha3_256(c1 \o c2)
       IN merkle' = [merkle EXCEPT
                        !.leaves = Append(SubSeq(@, 3, Len(@)), uuid),
                        !.g = G_add_edge(G_add_edge(G_add_node(@, uuid), c1, uuid), c2, uuid)]
    /\ UNCHANGED <<rdn_vars, flow>>

\* lines 56-58: `return g` with one leaf left; with no leaf the loop is not
\* entered and the function returns None
merkle_return ==
    /\ merkle.pc = "loop"
    /\ Len(merkle.leaves) <= 1
    /\ merkle' = [merkle EXCEPT !.pc = IF Len(merkle.leaves) = 1 THEN "returned g"
                                       ELSE "returned None"]
    /\ UNCHANGED <<rdn_vars, flow>>

NextMerkle == merkle_initial_hash \/ merkle_pair \/ merkle_return

SpecMerkle == InitMerkle /\ [][NextMerkle]_vars

\* -------------------------------------------------------- flow_graph_hash
\* the graphs the client builds: Graph(from_list=L) for a list L of distinct
\* edges, and optionally g.add_node(MaxNodes) after it
NodeIds == 1 .. MaxNodes

IsInjective(f) == \A i, j \in DOMAIN f : f[i] = f[j] => i = j

EmptyHashGraph == [nodes |-> <<>>, edges |-> <<>>, obj |-> <<>>]

InitFlow ==
    /\ InitRDN
    /\ IdleMerkle
    /\ \E k \in 0 .. MaxEdges : \E L \in [1 .. k -> NodeIds \X NodeIds] :
          /\ IsInjective(L)
          /\ \E add_node \in BOOLEAN :
                flow = [graph |-> IF add_node
                                  THEN G_add_node(G_from_list(L), MaxNodes)
                                  ELSE G_from_list(L),
                        sources |-> <<>>, hash_graph |-> EmptyHashGraph,
                        visited |-> {}, pc |-> "start"]

\* lines 117-123: the call st = [graph, sources, hash_graph, visited, pc]
\* when the loop is reached
flow_begin(gr) ==
    [graph |-> gr, sources |-> G_nodes_in_degree(gr, 0), hash_graph |-> EmptyHashGraph,
     visited |-> {}, pc |-> "loop"]

\* lines 133-137 with the supplier's original id absorbed in place of its
\* digest
RECURSIVE absorb_ids(_, _, _, _, _)
absorb_ids(gr, hg, source, sup, bytes) ==
    IF sup = <<>> THEN [bytes |-> bytes, exc |-> NoExc]
    ELSE IF G_depth_first_search(gr, source, Head(sup))
         THEN absorb_ids(gr, hg, source, Tail(sup), bytes)
    ELSE IF ~G_has(hg, Head(sup)) THEN [bytes |-> bytes, exc |-> "TypeError"]
    ELSE IF hg.obj[Head(sup)].new_hash = None THEN [bytes |-> bytes, exc |-> "TypeError"]
    ELSE absorb_ids(gr, hg, source, Tail(sup), bytes \o ToString(hg.obj[Head(sup)].original_hash))

\* lines 133-137: the loop over the suppliers; hash_graph.node(supplier) is
\* None for a supplier that is not in the hash graph yet, and its new_hash is
\* None for one that is not hashed yet: both end in TypeError
RECURSIVE absorb(_, _, _, _, _)
absorb(gr, hg, source, sup, bytes) ==
    IF sup = <<>> THEN [bytes |-> bytes, exc |-> NoExc]
    ELSE IF G_depth_first_search(gr, source, Head(sup))
         THEN absorb(gr, hg, source, Tail(sup), bytes)
    ELSE IF ~G_has(hg, Head(sup)) THEN [bytes |-> bytes, exc |-> "TypeError"]
    ELSE IF hg.obj[Head(sup)].new_hash = None THEN [bytes |-> bytes, exc |-> "TypeError"]
    ELSE absorb(gr, hg, source, Tail(sup), bytes \o hg.obj[Head(sup)].new_hash)

\* lines 148-158: the loop over the receivers
RECURSIVE receive(_, _, _)
receive(st, source, rec) ==
    IF rec = <<>> THEN st
    ELSE IF Head(rec) \in st.visited THEN receive(st, source, Tail(rec))
    ELSE LET receiver == Head(rec)
             hg1 == IF G_has(st.hash_graph, receiver) THEN st.hash_graph
                    ELSE G_add_node_obj(st.hash_graph, receiver,
                                        [original_hash |-> receiver, new_hash |-> None])
         IN receive([st EXCEPT !.visited = @ \cup {receiver},
                               !.hash_graph = G_add_edge(hg1, source, receiver),
                               !.sources = IF SeqHas(@, receiver) THEN @
                                           ELSE Append(@, receiver)],
                    source, Tail(rec))

\* lines 126-158: one iteration of `while sources`
flow_body(gr, st) ==
    LET source == Head(st.sources)
        st1 == [st EXCEPT !.sources = Tail(@)]
        a == absorb(gr, st.hash_graph, source, G_nodes_to(gr, source), ToString(source))
        source_hash == sha3_256(a.bytes)
        hg == IF ~G_has(st.hash_graph, source)
              THEN G_add_node_obj(st.hash_graph, source,
                                  [original_hash |-> source, new_hash |-> source_hash])
              ELSE [st.hash_graph EXCEPT !.obj[source].new_hash = source_hash]
    IN IF a.exc # NoExc THEN [st1 EXCEPT !.pc = a.exc]
       ELSE receive([st1 EXCEPT !.hash_graph = hg], source, G_nodes_from(gr, source))

\* lines 160-164: the check of the sinks, and the return
RECURSIVE check_sinks(_, _)
check_sinks(hg, sinks) ==
    IF sinks = <<>> THEN "returned"
    ELSE IF ~G_has(hg, Head(sinks)) THEN "TypeError"
    ELSE IF hg.obj[Head(sinks)].new_hash = None THEN "AssertionError"
    ELSE check_sinks(hg, Tail(sinks))

flow_end(gr, st) == [st EXCEPT !.pc = check_sinks(st.hash_graph, G_nodes_out_degree(gr, 0))]

\* flow_graph_hash(gr) as a function: the locals when the call ends
RECURSIVE flow_run(_, _)
flow_run(gr, st) ==
    IF st.pc # "loop" THEN st
    ELSE IF st.sources = <<>> THEN flow_end(gr, st)
    ELSE flow_run(gr, flow_body(gr, st))

flow_graph_hash(gr) == flow_run(gr, flow_begin(gr))

flow_start ==
    /\ flow.pc = "start"
    /\ flow' = flow_begin(flow.graph)
    /\ UNCHANGED <<rdn_vars, merkle>>

flow_iteration ==
    /\ flow.pc = "loop"
    /\ flow.sources # <<>>
    /\ flow' = flow_body(flow.graph, flow)
    /\ UNCHANGED <<rdn_vars, merkle>>

flow_return ==
    /\ flow.pc = "loop"
    /\ flow.sources = <<>>
    /\ flow' = flow_end(flow.graph, flow)
    /\ UNCHANGED <<rdn_vars, merkle>>

NextFlow == flow_start \/ flow_iteration \/ flow_return

SpecFlow == InitFlow /\ [][NextFlow]_vars

\* ------------------------------------------------------------ properties
\* the tasks a resource holds, in its inbox or in its sequence
Held(r) == new_tasks[r] \o tasks[r]

\* a call of RDN.schedule() on a network with a resource that holds a task
\* has ended
ScheduleEnded ==
    /\ last.op = "RDN.schedule"
    /\ \E r \in network["A"].nodes : Held(r) # <<>>

\* the call returned, and the notification queue is empty
Settled == last.exc = NoExc /\ task_queue["A"] = <<>>

Committed(t) == Task_bool(task[t]) /\ task[t].scheduled_start <= task[t].scheduled_finish

NeedsSupply(r, t) ==
    can_support(r, task[t].requires) /\ get_process(r, task[t].requires).inputs # {}

\* C1: once RDN.schedule() has ended on a network that holds tasks, it has
\* returned with the queue settled empty and every task of every resource's
\* sequence is committed: both times set, start <= finish.
C1_AllCommitted ==
    ScheduleEnded =>
        /\ Settled
        /\ \A r \in Res : \A i \in DOMAIN tasks[r] : Committed(tasks[r][i])

\* C2: once RDN.schedule() has ended on a network where a resource holds a
\* task whose process needs inputs, it has settled and every such task of a
\* sequence has exactly one supply task, which finishes before the task starts.
C2_OneSupplyBeforeStart ==
    (ScheduleEnded /\ \E r \in network["A"].nodes :
          \E i \in DOMAIN Held(r) : NeedsSupply(r, Held(r)[i])) =>
        /\ Settled
        /\ \A r \in Res : \A i \in DOMAIN tasks[r] :
              NeedsSupply(r, tasks[r][i]) =>
                  /\ tasks[r][i] \in DOMAIN supply[r]
                  /\ Len(supply[r][tasks[r][i]]) = 1
                  /\ Task_bool(task[supply[r][tasks[r][i]][1]])
                  /\ Task_bool(task[tasks[r][i]])
                  /\ task[supply[r][tasks[r][i]][1]].scheduled_finish
                         <= task[tasks[r][i]].scheduled_start

\* the suppliers that hold, in their sequence, a supply task issued by c
Retaining(c) ==
    {sp \in Res : \E i \in DOMAIN tasks[sp] : task[tasks[sp][i]].client = c}

\* C3: once RDN.schedule() has ended for a consumer that holds a task and
\* has two or more capable suppliers wired, it has settled and exactly one
\* supplier still holds a supply task of that consumer in its sequence.
C3_OneSupplierRetains ==
    \A c \in Res :
        (/\ ScheduleEnded
         /\ rdn[c] = "A"
         /\ \E i \in DOMAIN Held(c) :
               /\ NeedsSupply(c, Held(c)[i])
               /\ Len(suppliers(c, get_process(c, task[Held(c)[i]].requires).inputs)) >= 2)
        => (Settled /\ Cardinality(Retaining(c)) = 1)

\* C4: once RDN.schedule() has ended on a network where a resource holds two
\* tasks, it has settled and consecutive tasks of a sequence do not overlap.
C4_NoOverlap ==
    (ScheduleEnded /\ \E r \in network["A"].nodes : Len(Held(r)) >= 2) =>
        /\ Settled
        /\ \A r \in Res : \A i \in DOMAIN tasks[r] :
              /\ Task_bool(task[tasks[r][i]])
              /\ i > 1 => task[tasks[r][i - 1]].scheduled_finish
                              <= task[tasks[r][i]].scheduled_start

\* C5: every call of RDN.schedule() on a network with at least one resource
\* terminates by settling: it returns, and the queue is empty.
C5_Terminates ==
    (last.op = "RDN.schedule" /\ network["A"].nodes # {}) => Settled

\* C6: remove_task(t) on a resource whose supply[t] lists supply tasks
\* returns, leaves none of them in the inbox or sequence of its supplier, has
\* the supplier on the queue, and leaves no entry for t in supply.
C6_CancellationCascade ==
    [][\A r \in Res : \A t \in DOMAIN task :
          (/\ remove_task(r, t)
           /\ t \in DOMAIN supply[r]
           /\ supply[r][t] # <<>>)
          => /\ last'.exc = NoExc
             /\ \A i \in DOMAIN supply[r][t] :
                   LET st == supply[r][t][i]
                       sp == task[st].supplier
                   IN /\ ~SeqHas(new_tasks'[sp], st)
                      /\ ~SeqHas(tasks'[sp], st)
                      /\ SeqHas(task_queue'[rdn[r]], sp)
             /\ t \notin DOMAIN supply'[r]]_vars

\* C7: remove_task(t) on a resource that holds t neither in tasks nor in
\* new_tasks and has no supply entry for it changes nothing: tasks,
\* new_tasks, supply and the queue stay as they are.
C7_RemoveAbsentNoOp ==
    [][\A r \in Res : \A t \in DOMAIN task :
          (/\ remove_task(r, t)
           /\ ~SeqHas(tasks[r], t)
           /\ ~SeqHas(new_tasks[r], t)
           /\ t \notin DOMAIN supply[r])
          => /\ tasks' = tasks
             /\ new_tasks' = new_tasks
             /\ supply' = supply
             /\ task_queue' = task_queue]_vars

\* C8: add_task(t) raises when the resource is not attached to an RDN and
\* when no installed process has t.requires' key set as output key set, and
\* then new_tasks and the queue are unchanged; otherwise t is appended at the
\* back of new_tasks and the resource is on the queue of its RDN afterwards.
C8_AddTask ==
    [][\A r \in Res : \A req \in ReqPool :
          add_task(r, req) =>
              IF rdn[r] = None
                 \/ ~\E i \in DOMAIN processes[r] : processes[r][i].outputs = req
              THEN /\ last'.exc = "ValueError"
                   /\ new_tasks' = new_tasks
                   /\ task_queue' = task_queue
              ELSE /\ last'.exc = NoExc
                   /\ \E t \in DOMAIN task' \ DOMAIN task :
                         /\ task'[t].requires = req
                         /\ new_tasks' = [new_tasks EXCEPT ![r] = Append(@, t)]
                   /\ SeqHas(task_queue'[rdn[r]], r)]_vars

\* an attached resource with a task in its inbox has refused a task that no
\* process of it supports
C8_Witness ==
    /\ last.op = "add_task"
    /\ last.exc = "ValueError"
    /\ \E r \in Res :
          /\ rdn[r] # None
          /\ new_tasks[r] # <<>>
          /\ SeqHas(task_queue[rdn[r]], r)
          /\ \E req \in ReqPool : ~can_support(r, req)

\* every node of an RDN's graph has that RDN as back-reference
NodesBound == \A N \in RDNs : \A r \in network[N].nodes : rdn[r] = N

\* C9: a back-reference, once set, stays; add_resource and add_edge of an RDN
\* with a resource that is bound to another RDN raise and leave the graph
\* unchanged; so every node of an RDN's graph has that RDN as back-reference.
C9_BoundOnce ==
    [][/\ \A r \in Res : rdn[r] # None => rdn'[r] = rdn[r]
       /\ \A N \in RDNs : \A r \in Res :
             (add_resource(N, r) /\ rdn[r] \notin {None, N})
             => (last'.exc = "ValueError" /\ network'[N] = network[N])
       /\ \A N \in RDNs : \A e \in EdgePool :
             (add_edge(N, e[1], e[2]) /\ \E r \in {e[1], e[2]} : rdn[r] \notin {None, N})
             => (last'.exc = "ValueError" /\ network'[N] = network[N])
       /\ NodesBound']_vars

\* C10: once RDN.schedule() has ended on a network whose one resource has
\* the source process with setup 1, run 2, shutdown 1, change-over 0 and
\* holds two tasks requiring its output, it has returned and the sequence is
\* (start 0, finish 4), (start 4, finish 7).
C10_TwoSourceTasks ==
    \A r \in Res :
        (/\ last.op = "RDN.schedule"
         /\ network["A"].nodes = {r}
         /\ processes[r] = <<Psrc>>
         /\ Len(Held(r)) = 2)
        => /\ last.exc = NoExc
           /\ Len(tasks[r]) = 2
           /\ Task_bool(task[tasks[r][1]]) /\ Task_bool(task[tasks[r][2]])
           /\ task[tasks[r][1]].scheduled_start = 0
           /\ task[tasks[r][1]].scheduled_finish = 4
           /\ task[tasks[r][2]].scheduled_start = 4
           /\ task[tasks[r][2]].scheduled_finish = 7

\* Resource.finish_time
SetMax(S) == CHOOSE x \in S : \A y \in S : y <= x

finish_time(r) ==
    IF tasks[r] = <<>> THEN 0
    ELSE SetMax({task[tasks[r][i]].scheduled_finish : i \in DOMAIN tasks[r]})

\* every task of every sequence of the RDN "A" is committed
AllCommitted ==
    \A r \in network["A"].nodes : \A i \in DOMAIN tasks[r] : Committed(tasks[r][i])

\* C11: once RDN.schedule() has ended on a network with a resource, a settle
\* is recorded: it has returned, _makespan is no longer +infinity and is at
\* most the largest finish_time of the resources, and _solution holds the
\* task tuple of every resource.
C11_MakespanRecorded ==
    (last.op = "RDN.schedule" /\ network["A"].nodes # {}) =>
        /\ last.exc = NoExc
        /\ AllCommitted
        /\ makespan["A"] < Inf
        /\ makespan["A"] <= SetMax({finish_time(r) : r \in network["A"].nodes})
        /\ DOMAIN solution["A"] = network["A"].nodes

\* nothing is left to do on the RDN "A": inboxes and queue are empty and the
\* tasks of the sequences are committed
NothingToDo ==
    /\ network["A"].nodes # {}
    /\ task_queue["A"] = <<>>
    /\ \A r \in Res : new_tasks[r] = <<>>
    /\ AllCommitted

\* C12: RDN.schedule() called again where a call of it has ended and
\* nothing is left to do completes without error and leaves _solution,
\* _makespan, every sequence and every task as they are.  RDN_schedule
\* changes nothing but `last`, so the repeated call ends in the state the
\* first one ended in: in that state the call has returned without error
\* and _solution holds the sequences as they are.
C12_RerunNoOp ==
    (last.op = "RDN.schedule" /\ NothingToDo) =>
        /\ last.exc = NoExc
        /\ \A r \in network["A"].nodes :
              r \in DOMAIN solution["A"] /\ solution["A"][r] = tasks[r]

RECURSIVE active_time(_)
active_time(l) ==
    IF l = <<>> THEN 0
    ELSE (task[Head(l)].scheduled_finish - task[Head(l)].scheduled_start)
         + active_time(Tail(l))

\* C13: once RDN.schedule() has ended on a network that holds tasks, it has
\* settled and every resource's idle_time is its finish_time minus the sum of
\* (scheduled_finish - scheduled_start) over its sequence.
C13_IdleTime ==
    ScheduleEnded =>
        /\ Settled
        /\ AllCommitted
        /\ \A r \in network["A"].nodes :
              idle_time[r] = finish_time(r) - active_time(tasks[r])

Range(l) == {l[i] : i \in DOMAIN l}

\* the call of flow_graph_hash has returned, or ended in an exception
FlowReturned == flow.pc = "returned"
FlowRaised == flow.pc \in {"TypeError", "AssertionError"}

\* C14: for every input graph flow_graph_hash returns, it never ends in an
\* exception, and the hash graph it returns has as many nodes as the input,
\* every sink of the input with a non-null new_hash.
C14_HashGraphComplete ==
    /\ ~FlowRaised
    /\ FlowReturned =>
          /\ Len(flow.hash_graph.nodes) = Len(flow.graph.nodes)
          /\ \A n \in Range(G_nodes_out_degree(flow.graph, 0)) :
                G_has(flow.hash_graph, n) /\ flow.hash_graph.obj[n].new_hash # None

\* no edge u -> v whose head v reaches its tail u: no supplier is skipped as
\* lying on a cycle
Acyclic(gr) ==
    \A i \in DOMAIN gr.edges : ~G_depth_first_search(gr, gr.edges[i][2], gr.edges[i][1])

\* the nodes, other than n, with a directed path to n
Ancestors(gr, n) == {a \in Range(gr.nodes) \ {n} : G_depth_first_search(gr, a, n)}

\* the graph that differs from gr only in the identifier of a, which is b
Rename(gr, a, b) ==
    [nodes |-> [i \in DOMAIN gr.nodes |-> IF gr.nodes[i] = a THEN b ELSE gr.nodes[i]],
     edges |-> [i \in DOMAIN gr.edges |->
                   <<IF gr.edges[i][1] = a THEN b ELSE gr.edges[i][1],
                     IF gr.edges[i][2] = a THEN b ELSE gr.edges[i][2]>>]]

\* an identifier no input graph uses
Fresh == MaxNodes + 1

\* the digest of n differs between the run that has returned and the run on
\* the graph with a renamed
DependsOn(n, a) ==
    LET other == flow_graph_hash(Rename(flow.graph, a, Fresh))
    IN /\ other.pc = "returned"
       /\ G_has(other.hash_graph, n)
       /\ other.hash_graph.obj[n].new_hash # flow.hash_graph.obj[n].new_hash

C16_SameTopology ==
    (FlowReturned /\ Acyclic(flow.graph)) =>
        /\ Range(flow.hash_graph.nodes) = Range(flow.graph.nodes)
        /\ Range(flow.hash_graph.edges) = Range(flow.graph.edges)
        /\ \A n \in Range(flow.hash_graph.nodes) :
              /\ flow.hash_graph.obj[n].original_hash = n
              /\ flow.hash_graph.obj[n].new_hash # None

\* C17: when merkle_tree has returned for n >= 1 pairwise distinct data
\* blocks, the graph has 2n - 1 nodes, exactly one node without outgoing
\* edge, and every node that is not the digest of a data block has exactly
\* two incoming edges.
C17_MerkleShape ==
    (merkle.pc \in {"returned g", "returned None"} /\ merkle.data_blocks # <<>>
        /\ IsInjective(merkle.data_blocks)) =>
        /\ merkle.pc = "returned g"
        /\ Len(merkle.g.nodes) = 2 * Len(merkle.data_blocks) - 1
        /\ Len(G_nodes_out_degree(merkle.g, 0)) = 1
        /\ \A n \in Range(merkle.g.nodes) :
              (\A i \in DOMAIN merkle.data_blocks : n # sha3_256(merkle.data_blocks[i]))
              => Len(G_nodes_to(merkle.g, n)) = 2

\* Resource.schedule() of r would return in the waiting state: a supply
\* task of its supply lists is uncommitted
Waiting(r) ==
    \E t \in DOMAIN supply[r] : \E i \in DOMAIN supply[r][t] :
        ~Task_bool(task[supply[r][t][i]])

\* C18: once RDN.schedule() has ended on a network where a resource holds a
\* task whose process needs inputs, it has returned, and every such resource
\* has fanned out its supplies, is waiting for none of them any more and has
\* laid out its sequence: its inbox is empty and its tasks are committed.
C18_WaitingResourceRescheduled ==
    \A r \in network["A"].nodes :
        (/\ last.op = "RDN.schedule"
         /\ \E i \in DOMAIN Held(r) : NeedsSupply(r, Held(r)[i]))
        => /\ last.exc = NoExc
           /\ DOMAIN supply[r] # {}
           /\ ~Waiting(r)
           /\ new_tasks[r] = <<>>
           /\ \A i \in DOMAIN tasks[r] : Task_bool(task[tasks[r][i]])

\* C19: once RDN.schedule() has ended on a network that holds tasks, it has
\* returned and the inbox of every resource is empty.
C19_NoUnprocessedWork ==
    ScheduleEnded =>
        /\ last.exc = NoExc
        /\ \A r \in Res : new_tasks[r] = <<>>

\* C20: a call of RDN.schedule() with resources on the queue takes the queue
\* as its snapshot and invokes schedule() on every resource of it: a resource
\* of the snapshot with a task in its inbox has that task taken from the
\* inbox (Resource.schedule moves the head of the inbox to the sequence
\* before anything else), and the queue afterwards holds only ids that the
\* pass inserted, each once.
C20_PassRunsSnapshot ==
    [][(RDN_schedule("A") /\ task_queue["A"] # <<>>)
       => /\ \A i \in DOMAIN task_queue["A"] :
                new_tasks[task_queue["A"][i]] # <<>>
                => new_tasks'[task_queue["A"][i]] # new_tasks[task_queue["A"][i]]
          /\ IsInjective(task_queue'["A"])]_vars

\* Phase B (_determine_schedule) is due for r: the resource is bound, holds a
\* task and is not waiting for supply
PhaseBDue(r) ==
    /\ rdn[r] # None
    /\ Held(r) # <<>>
    /\ awaiting_supply_schedule(r).ret # "True"
    /\ awaiting_supply_schedule(r).exc \in {NoExc, "AttributeError"}

\* the i-th task of r's sequence has the key set of the task before it
Fold(r, i) == i > 1 /\ i <= Len(tasks[r]) /\ Task_eq(tasks[r][i - 1], tasks[r][i])

\* the sequence of r is laid out with the change-over fold: a task that
\* follows one of its key set has no setup, a task followed by one of its key
\* set ends with the change-over in place of the shutdown, and a task
\* starts where the one before it finishes, or later for its supply
LaidOut(r) ==
    \A i \in DOMAIN tasks[r] :
        LET t == task[tasks[r][i]]
            p == get_process(r, t.requires)
            before == IF i = 1 THEN 0 ELSE task[tasks[r][i - 1]].scheduled_finish
        IN /\ Task_bool(t)
           /\ t.scheduled_finish =
                 t.scheduled_start + (IF Fold(r, i) THEN 0 ELSE p.setup_time) + p.run_time
                 + (IF Fold(r, i + 1) THEN p.change_over_time ELSE p.shutdown_time)
           /\ t.scheduled_start >= before
           /\ p.inputs = {} => t.scheduled_start = before

\* C21: a call of Resource.schedule() for which Phase B is due lays the
\* sequence out with the change-over fold: for consecutive tasks prev, t of
\* one key set prev.scheduled_finish is reduced by shutdown_time -
\* change_over_time and t.scheduled_finish = t.scheduled_start + run_time +
\* shutdown_time; otherwise t.scheduled_finish = t.scheduled_start +
\* setup_time + run_time + shutdown_time.
C21_ChangeOverFold ==
    [][\A r \in Res : (Resource_schedule(r) /\ PhaseBDue(r)) => LaidOut(r)']_vars

\* the neighbours of c in its RDN's graph that have a process whose output
\* key set is req
Eligible(c, req) == {n \in Range(network[rdn[c]].succ[c]) : can_support(n, req)}

\* C22: a call of Resource.schedule() of c that fans out the supplies of a
\* task t creates exactly one supply task per neighbour s of c in the RDN's
\* graph that has a process whose output key set is the input key set of
\* c's process for t, with client = c and supplier = s, places it on s and on
\* no other resource, and hands no other task to a resource.
C22_FanOutRespectsGraph ==
    [][\A c \in Res : Resource_schedule_within(c, MaxHeld) =>
          LET made == nextId .. (nextId' - 1)
          IN /\ DOMAIN supply'[c] = DOMAIN supply[c] => made = {}
             /\ \A t \in DOMAIN supply'[c] \ DOMAIN supply[c] :
                   LET inputs == get_process(c, task[t].requires).inputs
                   IN /\ Range(supply'[c][t]) = made
                      /\ \A k \in made :
                            /\ task'[k].client = c
                            /\ task'[k].requires = inputs
                            /\ task'[k].supplier \in Eligible(c, inputs)
                            /\ \A x \in Res : SeqHas(new_tasks'[x] \o tasks'[x], k)
                                              <=> x = task'[k].supplier
                      /\ \A n \in Eligible(c, inputs) :
                            Cardinality({k \in made : task'[k].supplier = n}) = 1
      ]_vars

\* a fan-out to two suppliers has happened, and a fan-out of a resource with
\* a neighbour that cannot supply it: each supply task is in the inbox of its
\* supplier
C22_Witness ==
    /\ \E c \in Res : \E t \in DOMAIN supply[c] : Len(supply[c][t]) = 2
    /\ \E c \in Res : \E t \in DOMAIN supply[c] :
          /\ supply[c][t] # <<>>
          /\ \E n \in Range(network[rdn[c]].succ[c]) :
                ~can_support(n, get_process(c, task[t].requires).inputs)
    /\ \A c \in Res : \A t \in DOMAIN supply[c] : \A i \in DOMAIN supply[c][t] :
          SeqHas(new_tasks[task[supply[c][t][i]].supplier] \o
                 tasks[task[supply[c][t][i]].supplier], supply[c][t][i])

\* the list l without the task t itself
Without(l, t) == SelectSeq(l, LAMBDA u : u # t)

\* C23: remove_task(t) on a resource removes only the task object t itself:
\* every other task the resource holds in its inbox or in its sequence stays
\* there in its position, a task of another id with the key set of t
\* included.
C23_RemovesOnlyItself ==
    [][\A r \in Res : \A t \in DOMAIN task : remove_task(r, t) =>
          /\ new_tasks'[r] = Without(new_tasks[r], t)
          /\ tasks'[r] = Without(tasks[r], t)]_vars

\* the supply tasks of the task t of r that their supplier still holds in its
\* sequence
HeldSupply(r, t) == {k \in Range(supply[r][t]) : SeqHas(tasks[task[k].supplier], k)}

\* C24: once RDN.schedule() has ended, every task of a resource whose
\* process needs inputs is aligned to a supply task that its supplier still
\* holds: the call has returned, the task is committed, and the
\* earliest-finishing entry of its supply list is in the sequence of its
\* supplier and finishes before the task starts.
C24_AlignedToHeldSupply ==
    \A r \in network["A"].nodes : \A i \in DOMAIN Held(r) :
        (last.op = "RDN.schedule" /\ NeedsSupply(r, Held(r)[i])) =>
            /\ last.exc = NoExc
            /\ Committed(Held(r)[i])
            /\ Held(r)[i] \in DOMAIN supply[r]
            /\ \E k \in HeldSupply(r, Held(r)[i]) :
                  /\ Task_bool(task[k])
                  /\ task[k].scheduled_finish <= task[Held(r)[i]].scheduled_start
                  /\ \A j \in Range(supply[r][Held(r)[i]]) :
                        Task_bool(task[j]) =>
                            task[k].scheduled_finish <= task[j].scheduled_finish

\* C25: in flow_graph_hash, whenever a node is at the head of the work-list,
\* about to be hashed, every predecessor of it that the cycle test does not
\* skip is in the hash graph with a non-null new_hash.
C25_SuppliersHashedFirst ==
    (flow.pc = "loop" /\ flow.sources # <<>>) =>
        \A u \in Range(G_nodes_to(flow.graph, Head(flow.sources))) :
            ~G_depth_first_search(flow.graph, Head(flow.sources), u) =>
                /\ G_has(flow.hash_graph, u)
                /\ flow.hash_graph.obj[u].new_hash # None

====
